---- MODULE Spec2Model ----
(***************************************************************************)
(* Model of package prefixtrie (src/prefix_trie.go): a radix-compressed    *)
(* prefix trie that indexes every suffix of every added key.               *)
(*                                                                         *)
(* A Go string is a sequence of bytes (naturals below 256); offsets are    *)
(* 0-based as in the source.  A node is the record                         *)
(*   [prefix |-> bytes, values |-> ints, children |-> sequence of nodes].  *)
(***************************************************************************)
EXTENDS Integers, Sequences, FiniteSets, TLC

(***************************************************************************)
(* Bounds of the model.                                                    *)
(***************************************************************************)
MaxKeyLen == 3
MaxQueryLen == 3
MaxAdds == 2
MaxFinds == 1
MaxVal == 1
NumReaders == 2
MaxParAdds == 2
MaxParLen == 2
MaxLongAdds == 3

(***************************************************************************)
(* Strings.                                                                *)
(***************************************************************************)
\* s[i:]
From(s, i) == SubSeq(s, i + 1, Len(s))

\* s[:i]
Upto(s, i) == SubSeq(s, 1, i)

\* range of a sequence
Range(s) == {s[i] : i \in DOMAIN s}

Min(a, b) == IF a < b THEN a ELSE b

\* utf8.RuneError, what DecodeRuneInString yields for "" and for bad bytes
RuneError == 65533

\* utf8.DecodeRuneInString, for encodings of at most two bytes: <<rune, size>>
DecodeRuneInString(s) ==
    IF Len(s) = 0 THEN <<RuneError, 0>>
    ELSE IF s[1] < 128 THEN <<s[1], 1>>
    ELSE IF /\ s[1] >= 194 /\ s[1] <= 223
            /\ Len(s) >= 2 /\ s[2] >= 128 /\ s[2] <= 191
         THEN <<(s[1] - 192) * 64 + (s[2] - 128), 2>>
    ELSE <<RuneError, 1>>

\* strings.HasPrefix(s, prefix)
HasPrefix(s, prefix) ==
    /\ Len(s) >= Len(prefix)
    /\ Upto(s, Len(prefix)) = prefix

\* firstRune as it would be had it decoded nothing of str
firstRuneOfNothing(str) == RuneError

firstRune(str) == DecodeRuneInString(str)[1]

RECURSIVE commonPrefixLoop(_, _, _, _)
commonPrefixLoop(a, b, i, commonLen) ==
    IF i < commonLen
    THEN LET ra == DecodeRuneInString(From(a, i))[1]
             rb == DecodeRuneInString(From(b, i))
         IN  IF ra # rb[1] THEN i
             ELSE commonPrefixLoop(a, b, i + rb[2], commonLen)
    ELSE i

commonPrefix(a, b) ==
    Upto(a, commonPrefixLoop(a, b, 0, Min(Len(a), Len(b))))

(***************************************************************************)
(* Nodes.                                                                  *)
(***************************************************************************)
\* the zero value of node, the root of a zero-value Trie
ZeroNode == [prefix |-> <<>>, values |-> <<>>, children |-> <<>>]

\* the new leaf as it would be had it not been given the value
LeafWithoutValue(subKey, value) ==
    [prefix |-> subKey, values |-> <<>>, children |-> <<>>]

Leaf(subKey, value) ==
    [prefix |-> subKey, values |-> <<value>>, children |-> <<>>]

\* split as it would be had the relocated child not been given the children
splitDropsChildren(n, cp) ==
    [prefix   |-> cp,
     values   |-> <<>>,
     children |-> << [prefix   |-> From(n.prefix, Len(cp)),
                      values   |-> n.values,
                      children |-> <<>>] >>]

\* split as it would be had the shortened node kept its values as well
splitKeepsValues(n, cp) ==
    [prefix   |-> cp,
     values   |-> n.values,
     children |-> << [prefix   |-> From(n.prefix, Len(cp)),
                      values   |-> n.values,
                      children |-> n.children] >>]

split(n, cp) ==
    [prefix   |-> cp,
     values   |-> <<>>,
     children |-> << [prefix   |-> From(n.prefix, Len(cp)),
                      values   |-> n.values,
                      children |-> n.children] >>]

\* insertChildAtIndex as it would be had it put the new child last
insertChildAtIndexAppends(children, c, i) == Append(children, c)

\* append the last child, shift children[i..] one slot right, store c at i
insertChildAtIndex(children, c, i) ==
    LET grown   == Append(children, children[Len(children)])
        shifted == [j \in 1..Len(grown) |->
                       IF j >= i + 2 THEN grown[j - 1] ELSE grown[j]]
    IN  [shifted EXCEPT ![i + 1] = c]

RECURSIVE add(_, _, _)
RECURSIVE addLoop(_, _, _, _)
\* the sorted-add loop of add, entered at child index i
addLoop(n, subKey, value, i) ==
    IF i >= Len(n.children)
    THEN [n EXCEPT !.children = Append(@, Leaf(subKey, value))]
    ELSE LET c == n.children[i + 1]
             fr == firstRune(subKey)
             firstRuneOfChild == firstRune(c.prefix)
         IN  IF firstRuneOfChild = fr
             THEN [n EXCEPT !.children[i + 1] = add(c, subKey, value)]
             ELSE IF firstRuneOfChild > fr
             THEN [n EXCEPT !.children =
                       insertChildAtIndex(@, Leaf(subKey, value), i)]
             ELSE addLoop(n, subKey, value, i + 1)

\* add as it would be had it assigned the value instead of appending it
addOverwritesValues(n, key, value) ==
    LET cp == commonPrefix(n.prefix, key)
        n1 == IF Len(cp) < Len(n.prefix) THEN split(n, cp) ELSE n
    IN  IF Len(cp) = Len(key)
        THEN [n1 EXCEPT !.values = <<value>>]
        ELSE addLoop(n1, From(key, Len(cp)), value, 0)

add(n, key, value) ==
    LET cp == commonPrefix(n.prefix, key)
        n1 == IF Len(cp) < Len(n.prefix) THEN split(n, cp) ELSE n
    IN  IF Len(cp) = Len(key)
        THEN [n1 EXCEPT !.values = Append(@, value)]
        ELSE addLoop(n1, From(key, Len(cp)), value, 0)

RECURSIVE TrieAddLoop(_, _, _, _)
\* Add as it would be had it inserted the key alone, none of its suffixes
TrieAddLoopKeyOnly(r, key, value, i) ==
    IF i >= Len(key) THEN r ELSE add(r, From(key, i), value)

\* for i := range key: i steps over the starts of the runes of key
TrieAddLoop(r, key, value, i) ==
    IF i >= Len(key) THEN r
    ELSE TrieAddLoop(add(r, From(key, i), value), key, value,
                     i + DecodeRuneInString(From(key, i))[2])

TrieAdd(r, key, value) == TrieAddLoop(r, key, value, 0)

RECURSIVE collectValues(_, _)
RECURSIVE collectChildren(_, _, _)
collectChildren(children, dst, i) ==
    IF i >= Len(children) THEN dst
    ELSE collectChildren(children, collectValues(children[i + 1], dst), i + 1)

\* collectValues as it would be had it assigned n.values instead of appending
collectValuesOverwrites(n, dst) ==
    collectChildren(n.children, n.values, 0)

\* collectValues as it would be had it visited the children before n.values
collectValuesChildrenFirst(n, dst) ==
    collectChildren(n.children, dst, 0) \o n.values

collectValues(n, dst) ==
    collectChildren(n.children, dst \o n.values, 0)

\* the binary search inlined in find
RECURSIVE search(_, _, _, _)
search(children, fr, lo, hi) ==
    IF lo < hi
    THEN LET mid == lo + (hi - lo) \div 2
         IN  IF firstRune(children[mid + 1].prefix) < fr
             THEN search(children, fr, mid + 1, hi)
             ELSE search(children, fr, lo, mid)
    ELSE lo

\* outcome of a call: a returned slice, or a runtime panic
Returned(dst) == [panic |-> FALSE, ret |-> dst]
Panicked == [panic |-> TRUE, ret |-> <<>>]

RECURSIVE find(_, _, _)
find(n, dst, prefix) ==
    IF HasPrefix(n.prefix, prefix)
    THEN Returned(collectValues(n, dst))
    ELSE IF Len(n.prefix) > Len(prefix)
    THEN Panicked   \* prefix[len(n.prefix):] is out of range
    ELSE LET subPrefix == From(prefix, Len(n.prefix))
             fr == firstRune(subPrefix)
             lo == search(n.children, fr, 0, Len(n.children))
         IN  IF lo >= Len(n.children) THEN Returned(dst)
             ELSE IF firstRune(n.children[lo + 1].prefix) # fr
             THEN Returned(dst)
             ELSE find(n.children[lo + 1], dst, subPrefix)

TrieFind(r, dst, prefix) == find(r, dst, prefix)

(***************************************************************************)
(* Inputs: keys and queries are valid UTF-8 over a small alphabet with a   *)
(* two-byte rune, together with the strings of the package's tests.        *)
(***************************************************************************)
\* "a", "b", U+00E9
Alphabet == { <<97>>, <<98>>, <<195, 169>> }

RECURSIVE Strs(_)
\* the strings of at most n runes over Alphabet
Strs(n) ==
    IF n = 0 THEN { <<>> }
    ELSE LET S == Strs(n - 1)
         IN  S \cup { c \o s : c \in Alphabet, s \in S }

Google == <<119, 119, 119, 46, 103, 111, 111, 103, 108, 101, 46, 99, 111, 109>>
Foogle == <<119, 119, 119, 46, 102, 111, 111, 103, 108, 101, 46, 110, 101, 116>>
Digits == <<49, 50, 51, 52, 53, 54, 55>>

Keys == Strs(MaxKeyLen) \cup {Google, Foogle, Digits}

Queries ==
    Strs(MaxQueryLen) \cup
    { Google, Foogle, <<119, 119, 119>>, <<111, 103, 108, 101>>,
      <<102, 111>>, From(Google, 4), <<49, 50, 52, 53>>, Digits }

\* The code stores and copies values and never inspects them, so runs are
\* taken up to a renaming of the values: after n Add calls the next one uses
\* one of the values 0..n, a value used before or a fresh one.
Values(n) == 0..Min(n, MaxVal)

\* buffers a caller passes as dst: nil, and a slice holding elements
Buffers == { <<>>, <<7, 0>> }

(***************************************************************************)
(* State.                                                                  *)
(***************************************************************************)
VARIABLES
    root,   \* Trie.root
    adds,   \* the Add calls performed so far, as <<key, value>> pairs
    finds,  \* the number of Find calls performed so far
    last,   \* the last call: its arguments and its outcome
    rd      \* per goroutine running Find: where its call stands

vars == <<root, adds, finds, last, rd>>

Readers == 1..NumReaders

\* a goroutine that is not inside Find
Idle ==
    [pc |-> "idle", path |-> <<>>, q |-> <<>>, dst |-> <<>>, stack |-> <<>>,
     dst0 |-> <<>>, prefix0 |-> <<>>, root0 |-> ZeroNode]

NoCall ==
    [op |-> "none", key |-> <<>>, value |-> 0, dst |-> <<>>,
     panic |-> FALSE, ret |-> <<>>]

Init ==
    /\ root = ZeroNode
    /\ adds = <<>>
    /\ finds = 0
    /\ last = NoCall
    /\ rd = [r \in Readers |-> Idle]

\* a panic that is not recovered ends the program
Running == ~last.panic

Add(key, value) ==
    /\ Running
    /\ Len(adds) < MaxAdds
    /\ root' = TrieAdd(root, key, value)
    /\ adds' = Append(adds, <<key, value>>)
    /\ last' = [op |-> "Add", key |-> key, value |-> value, dst |-> <<>>,
                panic |-> FALSE, ret |-> <<>>]
    /\ UNCHANGED <<finds, rd>>

Find(dst, prefix) ==
    /\ Running
    /\ finds < MaxFinds
    /\ finds' = finds + 1
    /\ LET out == TrieFind(root, dst, prefix)
       IN  last' = [op |-> "Find", key |-> prefix, value |-> 0, dst |-> dst,
                    panic |-> out.panic, ret |-> out.ret]
    /\ UNCHANGED <<root, adds, rd>>

Next ==
    \/ \E key \in Keys, value \in Values(Len(adds)) : Add(key, value)
    \/ \E dst \in Buffers, prefix \in Queries : Find(dst, prefix)

Spec == Init /\ [][Next]_vars

(***************************************************************************)
(* Longer runs over fewer keys: up to MaxLongAdds Add calls whose keys are *)
(* written with a and b only, and Find(nil, .) calls with such queries.    *)
(***************************************************************************)
LongKeys == { k \in Strs(MaxKeyLen) : \A i \in DOMAIN k : k[i] \in {97, 98} }

AddLong(key, value) ==
    /\ Running
    /\ Len(adds) < MaxLongAdds
    /\ root' = TrieAdd(root, key, value)
    /\ adds' = Append(adds, <<key, value>>)
    /\ last' = [op |-> "Add", key |-> key, value |-> value, dst |-> <<>>,
                panic |-> FALSE, ret |-> <<>>]
    /\ UNCHANGED <<finds, rd>>

NextLong ==
    \/ \E key \in LongKeys, value \in Values(Len(adds)) : AddLong(key, value)
    \/ \E prefix \in LongKeys : Find(<<>>, prefix)

SpecLong == Init /\ [][NextLong]_vars

(***************************************************************************)
(* Find calls running in parallel.  A call advances one node at a time:    *)
(* find visits the node at path with the remaining query q; collectValues  *)
(* visits the node on top of its stack of pending nodes.  Each goroutine   *)
(* has its own dst; the trie is shared.  As the package requires, no Add   *)
(* runs while a Find is in flight.                                         *)
(***************************************************************************)
RECURSIVE NodeAt(_, _)
\* the node reached from n by the child indices of path
NodeAt(n, path) ==
    IF path = <<>> THEN n
    ELSE NodeAt(n.children[Head(path)], Tail(path))

\* one visit of find, by the goroutine whose call stands at c, on trie r
findStep(r, c) ==
    LET n == NodeAt(r, c.path)
    IN  IF HasPrefix(n.prefix, c.q)
        THEN [c EXCEPT !.pc = "collect", !.stack = <<c.path>>]
        ELSE IF Len(n.prefix) > Len(c.q)
        THEN [c EXCEPT !.pc = "panic"]
        ELSE LET subPrefix == From(c.q, Len(n.prefix))
                 fr == firstRune(subPrefix)
                 lo == search(n.children, fr, 0, Len(n.children))
             IN  IF lo >= Len(n.children) THEN [c EXCEPT !.pc = "done"]
                 ELSE IF firstRune(n.children[lo + 1].prefix) # fr
                 THEN [c EXCEPT !.pc = "done"]
                 ELSE [c EXCEPT !.path = Append(@, lo + 1), !.q = subPrefix]

\* collectValues as it would be had it not gone into the children
collectStepSkipsChildren(r, c) ==
    IF c.stack = <<>> THEN [c EXCEPT !.pc = "done"]
    ELSE [c EXCEPT !.dst = @ \o NodeAt(r, Head(c.stack)).values,
                   !.stack = Tail(@)]

\* one visit of collectValues: append the node's values, then its children
\* are pending, in order, before the nodes already pending
collectStep(r, c) ==
    IF c.stack = <<>> THEN [c EXCEPT !.pc = "done"]
    ELSE LET p == Head(c.stack)
             n == NodeAt(r, p)
         IN  [c EXCEPT !.dst = @ \o n.values,
                       !.stack = [i \in 1..Len(n.children) |-> Append(p, i)]
                                 \o Tail(@)]

ParKeys == Strs(MaxParLen)

ParQueries == Strs(MaxParLen)

\* the buffer of goroutine r, its own
ParBuffer(r) == [i \in 1..(r - 1) |-> 7]

ParRunning == \A r \in Readers : rd[r].pc # "panic"

AddPar(key, value) ==
    /\ ParRunning
    /\ \A r \in Readers : rd[r].pc = "idle"
    /\ Len(adds) < MaxParAdds
    /\ Add(key, value)

FindCall(r, prefix) ==
    /\ ParRunning
    /\ rd[r].pc = "idle"
    /\ rd' = [rd EXCEPT ![r] =
                [pc |-> "find", path |-> <<>>, q |-> prefix,
                 dst |-> ParBuffer(r), stack |-> <<>>,
                 dst0 |-> ParBuffer(r), prefix0 |-> prefix, root0 |-> root]]
    /\ UNCHANGED <<root, adds, finds, last>>

FindStep(r) ==
    /\ ParRunning
    /\ rd[r].pc = "find"
    /\ rd' = [rd EXCEPT ![r] = findStep(root, @)]
    /\ UNCHANGED <<root, adds, finds, last>>

CollectStep(r) ==
    /\ ParRunning
    /\ rd[r].pc = "collect"
    /\ rd' = [rd EXCEPT ![r] = collectStep(root, @)]
    /\ UNCHANGED <<root, adds, finds, last>>

FindReturn(r) ==
    /\ ParRunning
    /\ rd[r].pc = "done"
    /\ rd' = [rd EXCEPT ![r] = Idle]
    /\ UNCHANGED <<root, adds, finds, last>>

NextPar ==
    \/ \E key \in ParKeys, value \in Values(Len(adds)) : AddPar(key, value)
    \/ \E r \in Readers, prefix \in ParQueries : FindCall(r, prefix)
    \/ \E r \in Readers : FindStep(r)
    \/ \E r \in Readers : CollectStep(r)
    \/ \E r \in Readers : FindReturn(r)

SpecPar == Init /\ [][NextPar]_vars

(***************************************************************************)
(* What the Add calls performed so far ask of the trie, computed from the  *)
(* history alone.                                                          *)
(***************************************************************************)
RECURSIVE RuneStartsFrom(_, _)
RuneStartsFrom(k, i) ==
    IF i >= Len(k) THEN {}
    ELSE {i} \cup RuneStartsFrom(k, i + DecodeRuneInString(From(k, i))[2])

\* the offsets at which a rune of k starts
RuneStarts(k) == RuneStartsFrom(k, 0)

\* the non-empty contiguous substrings of k cut on code-point boundaries
Substrings(k) ==
    LET cuts == RuneStarts(k) \cup {Len(k)}
    IN  { SubSeq(k, i + 1, j) : <<i, j>> \in {c \in cuts \X cuts : c[1] < c[2]} }

\* strings.Contains(k, x)
IsSubstring(x, k) ==
    \E i \in 0..(Len(k) - Len(x)) : SubSeq(k, i + 1, i + Len(x)) = x

AddedKeys == { adds[n][1] : n \in DOMAIN adds }

OccursInAddedKey(x) == \E k \in AddedKeys : IsSubstring(x, k)

\* the number of times v occurs in the sequence s
Count(s, v) == Cardinality({ i \in DOMAIN s : s[i] = v })

\* the trie as the Add calls left it: no Find has run since the last Add
AfterAdds == last.op # "Find"

(***************************************************************************)
(* C1.  Substring completeness: after any sequence of Add calls, for every *)
(* Add(k, v) performed and every non-empty substring s of k cut on         *)
(* code-point boundaries (suffix, prefix or infix), Find(nil, s) returns   *)
(* and its result contains v; and a Find call made with such an s and any  *)
(* buffer returns a result containing v.                                   *)
(***************************************************************************)
SubstringCompleteness ==
    /\ AfterAdds =>
         \A n \in DOMAIN adds : \A s \in Substrings(adds[n][1]) :
            LET out == TrieFind(root, <<>>, s)
            IN  ~out.panic /\ adds[n][2] \in Range(out.ret)
    /\ last.op = "Find" =>
         \A n \in DOMAIN adds :
            last.key \in Substrings(adds[n][1]) =>
               ~last.panic /\ adds[n][2] \in Range(From(last.ret, Len(last.dst)))

\* a Find of a proper infix of a three-rune key returned the key's value
SubstringCompletenessWitness ==
    /\ last.op = "Find"
    /\ ~last.panic
    /\ \E n \in DOMAIN adds :
          LET k == adds[n][1]
          IN  /\ last.key \in Substrings(k)
              /\ ~HasPrefix(k, last.key)
              /\ \E i \in RuneStarts(k) :
                    i > 0 /\ HasPrefix(From(k, i), last.key)
                          /\ Len(last.key) < Len(k) - i
              /\ adds[n][2] \in Range(From(last.ret, Len(last.dst)))

(***************************************************************************)
(* C2.  No false positives: a Find(nil, x) whose x is not a contiguous     *)
(* substring of any added key returns an empty result.  Stated for the     *)
(* calls that return, so that a violation is a value wrongly returned and  *)
(* not the abort of C4.                                                    *)
(***************************************************************************)
NoFalsePositives ==
    (/\ last.op = "Find"
     /\ last.dst = <<>>
     /\ ~OccursInAddedKey(last.key)
     /\ ~last.panic)
    => last.ret = <<>>

(***************************************************************************)
(* C3.  Partial match is rejected: on a trie holding only                  *)
(* Add("1234567", v), Find(nil, "1245") returns an empty result; and when  *)
(* on the path Find descends the remaining query and the label of the node *)
(* reached share a leading run but diverge before the query is exhausted,  *)
(* Find returns with nothing appended.                                     *)
(***************************************************************************)
RECURSIVE DivergesOnPath(_, _)
\* find's descent from n with query q meets a node whose label shares a
\* non-empty leading run with the remaining query and then differs from it
DivergesOnPath(n, q) ==
    LET cp == commonPrefix(n.prefix, q)
    IN  IF Len(cp) > 0 /\ Len(cp) < Len(q) /\ Len(cp) < Len(n.prefix)
        THEN TRUE
        ELSE IF HasPrefix(n.prefix, q) \/ Len(n.prefix) > Len(q) THEN FALSE
        ELSE LET subPrefix == From(q, Len(n.prefix))
                 fr == firstRune(subPrefix)
                 lo == search(n.children, fr, 0, Len(n.children))
             IN  IF lo >= Len(n.children) THEN FALSE
                 ELSE IF firstRune(n.children[lo + 1].prefix) # fr THEN FALSE
                 ELSE DivergesOnPath(n.children[lo + 1], subPrefix)

PartialMatchRejected ==
    /\ (/\ last.op = "Find"
        /\ Len(adds) = 1 /\ adds[1][1] = Digits
        /\ last.dst = <<>>
        /\ last.key = <<49, 50, 52, 53>>)
       => (~last.panic /\ last.ret = <<>>)
    /\ (last.op = "Find" /\ DivergesOnPath(root, last.key))
       => (~last.panic /\ last.ret = last.dst)

(***************************************************************************)
(* C4.  Find has no failure mode: on every trie reachable by Add calls and *)
(* for every prefix, Find returns a sequence; it never aborts with a       *)
(* runtime failure.                                                        *)
(***************************************************************************)
FindNeverPanics == last.op = "Find" => ~last.panic

DistinctValues ==
    \A m, n \in DOMAIN adds : m # n => adds[m][2] # adds[n][2]

FullKeyRoundTrip ==
    (AfterAdds /\ DistinctValues) =>
        \A n \in DOMAIN adds :
            LET k == adds[n][1]
                v == adds[n][2]
                out == TrieFind(root, <<>>, k)
            IN  /\ ~out.panic
                /\ Count(out.ret, v) = 1
                /\ (\A m \in DOMAIN adds : m # n => ~IsSubstring(k, adds[m][1]))
                   => out.ret = <<v>>

(***************************************************************************)
(* C7.  Find emits values in pre-order: the values of the matched node     *)
(* first, then each child's subtree, children in ascending first-character *)
(* order.  So for a query p occurring in an added key the result lists the *)
(* inserted suffixes that start with p in code-point lexicographic order   *)
(* (a suffix before its extensions; equal suffixes in the order of their   *)
(* Add calls); and after Add("www.google.com", 0), Add("www.foogle.net",   *)
(* 1) the six queries of the package example return [0], [1], [1 0],       *)
(* [0 1], [1], [0].                                                        *)
(***************************************************************************)
\* the inserted suffixes, as <<index of the Add call, offset in its key>>
Entries ==
    UNION { { <<n, i>> : i \in RuneStarts(adds[n][1]) } : n \in DOMAIN adds }

Suffix(e) == From(adds[e[1]][1], e[2])

RECURSIVE RuneLess(_, _)
\* s sorts strictly before t, rune by rune, a proper prefix first
RuneLess(s, t) ==
    IF t = <<>> THEN FALSE
    ELSE IF s = <<>> THEN TRUE
    ELSE LET rs == DecodeRuneInString(s)
             rt == DecodeRuneInString(t)
         IN  IF rs[1] # rt[1] THEN rs[1] < rt[1]
             ELSE RuneLess(From(s, rs[2]), From(t, rt[2]))

Before(e, f) ==
    \/ RuneLess(Suffix(e), Suffix(f))
    \/ Suffix(e) = Suffix(f) /\ e[1] < f[1]

Matching(p) == { e \in Entries : HasPrefix(Suffix(e), p) }

\* the values of the inserted suffixes starting with p, in sorted order
Expected(p) ==
    LET M == Matching(p)
    IN  [ k \in 1..Cardinality(M) |->
            LET e == CHOOSE e \in M :
                        Cardinality({ f \in M : Before(f, e) }) = k - 1
            IN  adds[e[1]][2] ]

RECURSIVE Nodes(_)
\* n and every node below it
Nodes(n) ==
    {n} \cup UNION { Nodes(n.children[i]) : i \in DOMAIN n.children }

RECURSIVE ChildrenValues(_, _)
\* what Find(nil, .) yields for each child from index i on, concatenated
ChildrenValues(children, i) ==
    IF i > Len(children) THEN <<>>
    ELSE collectValues(children[i], <<>>) \o ChildrenValues(children, i + 1)

ProbeQueries == { <<>> } \cup UNION { Substrings(k) : k \in AddedKeys }

ExampleAdds == << <<Google, 0>>, <<Foogle, 1>> >>

FindPreOrder ==
    AfterAdds =>
        /\ \A p \in ProbeQueries :
              TrieFind(root, <<>>, p) = Returned(Expected(p))
        /\ \A n \in Nodes(root) :
              /\ collectValues(n, <<>>) = n.values \o ChildrenValues(n.children, 1)
              /\ \A i, j \in DOMAIN n.children :
                    i < j => firstRune(n.children[i].prefix)
                               < firstRune(n.children[j].prefix)
        /\ adds = ExampleAdds =>
              /\ TrieFind(root, <<>>, Google) = Returned(<<0>>)
              /\ TrieFind(root, <<>>, Foogle) = Returned(<<1>>)
              /\ TrieFind(root, <<>>, <<119, 119, 119>>) = Returned(<<1, 0>>)
              /\ TrieFind(root, <<>>, <<111, 103, 108, 101>>) = Returned(<<0, 1>>)
              /\ TrieFind(root, <<>>, <<102, 111>>) = Returned(<<1>>)
              /\ TrieFind(root, <<>>, From(Google, 4)) = Returned(<<0>>)

\* the example's Find(nil, "www") has returned [1 0]
FindPreOrderWitness ==
    /\ adds = ExampleAdds
    /\ last.op = "Find"
    /\ last.dst = <<>>
    /\ last.key = <<119, 119, 119>>
    /\ ~last.panic
    /\ last.ret = <<1, 0>>

(***************************************************************************)
(* C8.  Empty prefix returns everything: after any sequence of Add calls   *)
(* Find(nil, "") returns, and every value passed to an Add call occurs in  *)
(* its result.                                                             *)
(***************************************************************************)
EmptyPrefixReturnsEverything ==
    AfterAdds =>
        LET out == TrieFind(root, <<>>, <<>>)
        IN  /\ ~out.panic
            /\ \A n \in DOMAIN adds : adds[n][2] \in Range(out.ret)

(***************************************************************************)
(* C9.  Add with the empty key tags the root: after Add("", v) the root's  *)
(* values contain v and Find(nil, "") includes v.                          *)
(***************************************************************************)
EmptyKeyTagsRoot ==
    (last.op = "Add" /\ last.key = <<>>) =>
        /\ last.value \in Range(root.values)
        /\ last.value \in Range(TrieFind(root, <<>>, <<>>).ret)

(***************************************************************************)
(* C10.  Concurrent reads are safe: under any interleaving of Find calls   *)
(* on the same trie, each with its own dst and with no Add in progress,    *)
(* the trie stays as it was when the call began, and every call ends as it *)
(* ends when run alone on that trie: it returns the same slice, or aborts  *)
(* where the call run alone aborts.                                        *)
(***************************************************************************)
ConcurrentFindsAgree ==
    \A r \in Readers :
        LET c == rd[r]
            alone == TrieFind(c.root0, c.dst0, c.prefix0)
        IN  /\ c.pc # "idle" => root = c.root0
            /\ c.pc = "done" => (~alone.panic /\ c.dst = alone.ret)
            /\ c.pc = "panic" => alone.panic

\* one call has returned both values of a two-Add trie while another call,
\* started on the same trie, is in the middle of collecting
ConcurrentFindsAgreeWitness ==
    \E r1, r2 \in Readers :
        /\ r1 # r2
        /\ rd[r1].pc = "done"
        /\ {0, 1} \subseteq Range(rd[r1].dst)
        /\ rd[r2].pc = "collect"
        /\ rd[r2].stack # <<>>
        /\ Len(rd[r2].dst) > Len(rd[r2].dst0)

(***************************************************************************)
(* C11.  A zero-value Trie is ready to use: before any Add, Find(dst, p)   *)
(* returns dst unchanged for every p, the empty string included; and the   *)
(* first Add makes its key findable: Find(nil, key) returns and its result *)
(* contains the value added.                                               *)
(***************************************************************************)
ZeroValueReady ==
    /\ (adds = <<>> /\ last.op = "Find") =>
          (~last.panic /\ last.ret = last.dst)
    /\ adds = <<>> =>
          \A dst \in Buffers, p \in Queries :
             TrieFind(root, dst, p) = Returned(dst)
    /\ (Len(adds) = 1 /\ AfterAdds) =>
          LET out == TrieFind(root, <<>>, adds[1][1])
          IN  ~out.panic /\ adds[1][2] \in Range(out.ret)

(***************************************************************************)
(* C12.  Sorted children (I1): after any sequence of Add calls, in every   *)
(* node the first runes of the children's labels are pairwise distinct and *)
(* strictly ascending by code point.                                       *)
(***************************************************************************)
SortedChildren ==
    \A n \in Nodes(root) :
        \A i, j \in DOMAIN n.children :
            i < j => firstRune(n.children[i].prefix)
                       < firstRune(n.children[j].prefix)

\* the root got its three children in descending order of first rune, so two
\* of them were inserted at an index before an older child; and some node,
\* value-less with two children, came from a split followed by an insertion
SortedChildrenWitness ==
    /\ last.op = "Add"
    /\ Len(adds) = 2
    /\ adds[1][1] = <<195, 169, 98, 97>>
    /\ Len(root.children) = 3
    /\ \E n \in Nodes(root) :
          n # root /\ n.values = <<>> /\ Len(n.children) >= 2

(***************************************************************************)
(* C13.  The trie stores exactly the inserted suffixes: the node whose     *)
(* root-to-node labels concatenate to p holds, in the order of the Add     *)
(* calls and with duplicates kept, the values v of the pairs (Add(k, v),   *)
(* offset i of a rune of k) with k[i:] = p; no two nodes have the same     *)
(* path; and every inserted suffix has its node.                           *)
(***************************************************************************)
RECURSIVE PathNodes(_, _)
\* <<path string, node>> for n, reached by the labels pre, and all below it
PathNodes(n, pre) ==
    LET p == pre \o n.prefix
    IN  { <<p, n>> } \cup
        UNION { PathNodes(n.children[i], p) : i \in DOMAIN n.children }

RECURSIVE InsertedAt(_, _)
\* the values of the first m Add calls that inserted the suffix p, in order
InsertedAt(p, m) ==
    IF m = 0 THEN <<>>
    ELSE LET k == adds[m][1]
             rest == InsertedAt(p, m - 1)
         IN  IF \E i \in RuneStarts(k) : From(k, i) = p
             THEN Append(rest, adds[m][2])
             ELSE rest

StoresInsertedSuffixes ==
    AfterAdds =>
        LET PN == PathNodes(root, <<>>)
        IN  /\ \A pn \in PN : pn[2].values = InsertedAt(pn[1], Len(adds))
            /\ \A pn, qn \in PN : pn[1] = qn[1] => pn = qn
            /\ \A e \in Entries : \E pn \in PN : pn[1] = Suffix(e)

\* the same suffix was inserted by two Add calls: its node holds both values,
\* the older first, and a node made by a split holds none
StoresInsertedSuffixesWitness ==
    /\ last.op = "Add"
    /\ \E pn \in PathNodes(root, <<>>) :
          /\ pn[2].values = <<0, 1>>
          /\ Len(pn[1]) >= 2
    /\ \E pn \in PathNodes(root, <<>>) :
          pn[2] # root /\ pn[2].values = <<>>

(***************************************************************************)
(* The steps of n.add(key, value), in order, for the node n at the child   *)
(* indices path: "split" (cp the common prefix), "tag" (the value goes to  *)
(* the node), "append" and "insert" (a leaf becomes child i of a node that *)
(* had nch children), "recurse" (into child i, of whose label and the rest *)
(* of the key cp is the common prefix).  A recursion that would consume    *)
(* nothing ends the listing.                                               *)
(***************************************************************************)
Step(kind, path, cp, i, nch) ==
    [kind |-> kind, path |-> path, cp |-> cp, i |-> i, nch |-> nch]

RECURSIVE addSteps(_, _, _)
RECURSIVE addLoopSteps(_, _, _, _)
addLoopSteps(n, path, subKey, i) ==
    IF i >= Len(n.children)
    THEN << Step("append", path, <<>>, i, Len(n.children)) >>
    ELSE LET c == n.children[i + 1]
             fr == firstRune(subKey)
             firstRuneOfChild == firstRune(c.prefix)
             ccp == commonPrefix(c.prefix, subKey)
         IN  IF firstRuneOfChild = fr
             THEN << Step("recurse", path, ccp, i, Len(n.children)) >>
                  \o (IF ccp = <<>> THEN <<>>
                      ELSE addSteps(c, Append(path, i + 1), subKey))
             ELSE IF firstRuneOfChild > fr
             THEN << Step("insert", path, <<>>, i, Len(n.children)) >>
             ELSE addLoopSteps(n, path, subKey, i + 1)

addSteps(n, path, key) ==
    LET cp == commonPrefix(n.prefix, key)
        splits == Len(cp) < Len(n.prefix)
        n1 == IF splits THEN split(n, cp) ELSE n
        s1 == IF splits THEN << Step("split", path, cp, 0, Len(n.children)) >>
              ELSE <<>>
    IN  IF Len(cp) = Len(key)
        THEN s1 \o << Step("tag", path, cp, 0, Len(n1.children)) >>
        ELSE s1 \o addLoopSteps(n1, path, From(key, Len(cp)), 0)

RECURSIVE LabelsTo(_, _)
\* the labels of the nodes above the node at path, concatenated
LabelsTo(n, path) ==
    IF path = <<>> THEN <<>>
    ELSE n.prefix \o LabelsTo(n.children[Head(path)], Tail(path))

RECURSIVE Replay(_)
\* the trie after the first m Add calls
Replay(m) ==
    IF m = 0 THEN ZeroNode
    ELSE TrieAdd(Replay(m - 1), adds[m][1], adds[m][2])

RECURSIVE TrieAddStages(_, _, _, _)
\* the calls root.add(key[i:], value) of one Trie.Add, each with the trie
\* it starts from
TrieAddStages(r, key, value, i) ==
    IF i >= Len(key) THEN <<>>
    ELSE << [r |-> r, sub |-> From(key, i)] >>
         \o TrieAddStages(add(r, From(key, i), value), key, value,
                          i + DecodeRuneInString(From(key, i))[2])

\* the calls root.add made by the Add that led to this state
LastAddStages ==
    IF last.op = "Add" /\ adds # <<>>
    THEN TrieAddStages(Replay(Len(adds) - 1), last.key, last.value, 0)
    ELSE <<>>

\* the <<path string, values>> pairs of the nodes of PN that hold a value
ValuePairs(PN) == { <<pn[1], pn[2].values>> : pn \in { x \in PN : x[2].values # <<>> } }

(***************************************************************************)
(* C14.  Split relocates without loss: whenever add meets a node whose     *)
(* label is longer than the common prefix, the node's label becomes the    *)
(* common prefix, it holds no value and has one child, which carries the   *)
(* rest of the label and the node's former values and children unchanged;  *)
(* the node stays at its index in its parent, whose other children are     *)
(* untouched; and every path holds the same values right before and right  *)
(* after the split (the shortened node's path, new, holds none).           *)
(***************************************************************************)
SplitOk(r, sub, st) ==
    LET n      == NodeAt(r, st.path)
        sp     == split(n, st.cp)
        pre    == LabelsTo(r, st.path)
        after  == add(r, sub, 0)
        parent == SubSeq(st.path, 1, Len(st.path) - 1)
    IN  /\ Len(st.cp) < Len(n.prefix)
        /\ sp.prefix = st.cp
        /\ sp.values = <<>>
        /\ Len(sp.children) = 1
        /\ sp.prefix \o sp.children[1].prefix = n.prefix
        /\ sp.children[1].values = n.values
        /\ sp.children[1].children = n.children
        /\ ValuePairs(PathNodes(sp, pre)) = ValuePairs(PathNodes(n, pre))
        /\ { pn[1] : pn \in PathNodes(sp, pre) }
              = { pn[1] : pn \in PathNodes(n, pre) } \cup { pre \o st.cp }
        /\ NodeAt(after, st.path).prefix = st.cp
        /\ sp.children[1] \in Range(NodeAt(after, st.path).children)
        /\ st.path # <<>> =>
              LET before == NodeAt(r, parent).children
                  now    == NodeAt(after, parent).children
              IN  /\ Len(now) = Len(before)
                  /\ \A j \in DOMAIN before :
                        j # st.path[Len(st.path)] => now[j] = before[j]

RECURSIVE SplitsOkAlong(_, _, _)
\* SplitOk for every split of the calls root.add(key[i:]) of Add(key) on r
SplitsOkAlong(r, key, i) ==
    IF i >= Len(key) THEN TRUE
    ELSE LET sub   == From(key, i)
             steps == addSteps(r, <<>>, sub)
         IN  /\ \A j \in DOMAIN steps :
                   steps[j].kind = "split" => SplitOk(r, sub, steps[j])
             /\ SplitsOkAlong(add(r, sub, 0), key,
                              i + DecodeRuneInString(sub)[2])

SplitRelocates ==
    AfterAdds => \A key \in Keys : SplitsOkAlong(root, key, 0)

\* the Add that led here split a node that held a value and had a child
SplitRelocatesWitness ==
    \E j \in DOMAIN LastAddStages :
        LET stage == LastAddStages[j]
            steps == addSteps(stage.r, <<>>, stage.sub)
        IN  \E k \in DOMAIN steps :
               /\ steps[k].kind = "split"
               /\ steps[k].path # <<>>
               /\ NodeAt(stage.r, steps[k].path).values # <<>>
               /\ NodeAt(stage.r, steps[k].path).children # <<>>

(***************************************************************************)
(* C15.  Add never fails: from every trie that Add calls have built, every *)
(* further Add runs to its end; insertChildAtIndex is only called on a     *)
(* node that has a child, with an index inside its children; and every     *)
(* recursion into a child consumes at least one rune of the suffix.        *)
(***************************************************************************)
StepsSafe(steps) ==
    \A j \in DOMAIN steps :
        /\ steps[j].kind = "insert" =>
              (steps[j].nch >= 1 /\ 0 <= steps[j].i /\ steps[j].i < steps[j].nch)
        /\ steps[j].kind = "recurse" =>
              (steps[j].i < steps[j].nch /\ Len(steps[j].cp) >= 1)
        /\ j = Len(steps) => steps[j].kind \in {"tag", "append", "insert"}

RECURSIVE TrieAddSafe(_, _, _)
TrieAddSafe(r, key, i) ==
    IF i >= Len(key) THEN TRUE
    ELSE LET sub == From(key, i)
         IN  /\ StepsSafe(addSteps(r, <<>>, sub))
             /\ TrieAddSafe(add(r, sub, 0), key,
                            i + DecodeRuneInString(sub)[2])

AddNeverFails ==
    AfterAdds => \A key \in Keys : TrieAddSafe(root, key, 0)

\* the Add that led here called insertChildAtIndex below the root, after a
\* recursion, and recursed two levels deep
AddNeverFailsWitness ==
    /\ \E j \in DOMAIN LastAddStages :
          LET stage == LastAddStages[j]
              steps == addSteps(stage.r, <<>>, stage.sub)
          IN  \E k \in DOMAIN steps :
                 steps[k].kind = "insert" /\ steps[k].path # <<>>
    /\ \E j \in DOMAIN LastAddStages :
          LET stage == LastAddStages[j]
              steps == addSteps(stage.r, <<>>, stage.sub)
          IN  \E k \in DOMAIN steps :
                 steps[k].kind = "recurse" /\ Len(steps[k].path) >= 1

(***************************************************************************)
(* C16.  Add is monotone for lookups: for every query p, the values that   *)
(* Find(nil, p) returned before an Add are all, each as many times, among  *)
(* the values Find(nil, p) returns after it (stated for the calls that     *)
(* return on both sides of the Add).                                       *)
(***************************************************************************)
MonotoneLookups ==
    (last.op = "Add" /\ adds # <<>>) =>
        \A p \in LongKeys :
            LET before == TrieFind(Replay(Len(adds) - 1), <<>>, p)
                after  == TrieFind(root, <<>>, p)
            IN  (~before.panic /\ ~after.panic) =>
                    \A v \in Range(before.ret) :
                        Count(before.ret, v) <= Count(after.ret, v)

(***************************************************************************)
(* C17.  Result multiplicity: for every non-empty query p that occurs in   *)
(* an added key, Find(nil, p) returns, and its result holds each value v   *)
(* exactly once per pair (Add(k, v), offset i of a rune of k) such that    *)
(* k[i:] starts with p, and holds nothing else; after Add("aa", v) alone,  *)
(* Find(nil, "a") is [v, v].                                               *)
(***************************************************************************)
ResultMultiplicity ==
    AfterAdds =>
        /\ \A p \in ProbeQueries \ { <<>> } :
              LET out == TrieFind(root, <<>>, p)
              IN  /\ ~out.panic
                  /\ \A v \in Range(out.ret) \cup { adds[n][2] : n \in DOMAIN adds } :
                        Count(out.ret, v)
                          = Cardinality({ e \in Matching(p) : adds[e[1]][2] = v })
        /\ adds = << << <<97, 97>>, 0 >> >> =>
              TrieFind(root, <<>>, <<97>>) = Returned(<<0, 0>>)

\* "aa" was added with 0 and another key with 1: "a" finds 0 twice, once for
\* each suffix of "aa", and 1 once for each suffix of the other key it begins
ResultMultiplicityWitness ==
    /\ last.op = "Add"
    /\ Len(adds) = 2
    /\ adds[1] = << <<97, 97>>, 0 >>
    /\ adds[2][2] = 1
    /\ LET out == TrieFind(root, <<>>, <<97>>)
       IN  Count(out.ret, 0) = 2 /\ Count(out.ret, 1) = 2

(***************************************************************************)
(* C18.  Radix compression, as claimed: after any sequence of Add calls    *)
(* every node but the root has a non-empty label, every leaf holds at      *)
(* least one value, and every node but the root holds a value or has at    *)
(* least two children.                                                     *)
(***************************************************************************)
NonRootNodes == UNION { Nodes(root.children[i]) : i \in DOMAIN root.children }

RadixCompressed ==
    /\ \A n \in NonRootNodes : n.prefix # <<>>
    /\ \A n \in {root} \cup NonRootNodes : n.children = <<>> => n.values # <<>>
    /\ \A n \in NonRootNodes : n.values # <<>> \/ Len(n.children) >= 2

(***************************************************************************)
(* C18, amended: after any sequence of Add calls every node but the root   *)
(* has a non-empty label, every leaf but the root holds at least one       *)
(* value, and every node but the root holds a value or has at least two    *)
(* children.                                                               *)
(***************************************************************************)
RadixCompressedBelowRoot ==
    /\ \A n \in NonRootNodes : n.prefix # <<>>
    /\ \A n \in NonRootNodes : n.children = <<>> => n.values # <<>>
    /\ \A n \in NonRootNodes : n.values # <<>> \/ Len(n.children) >= 2

\* below the root there are a leaf, a node with a value and a single child,
\* and a node with no value and two children or more
RadixCompressedBelowRootWitness ==
    /\ last.op = "Add"
    /\ \E n \in NonRootNodes : n.children = <<>>
    /\ \E n \in NonRootNodes : n.values # <<>> /\ Len(n.children) = 1
    /\ \E n \in NonRootNodes : n.values = <<>> /\ Len(n.children) >= 2

(***************************************************************************)
(* C19.  Insertion-order independence: performing the same Add calls in    *)
(* any other order yields the same tree shape, with the same labels and    *)
(* the same multiset of values at every node, hence for every query the    *)
(* same outcome of Find(nil, p) up to the order of the values.             *)
(***************************************************************************)
RECURSIVE ReplayOf(_, _)
\* the trie after the first m Add calls of the sequence calls
ReplayOf(calls, m) ==
    IF m = 0 THEN ZeroNode
    ELSE TrieAdd(ReplayOf(calls, m - 1), calls[m][1], calls[m][2])

\* the Add calls made so far, in every order
Orders ==
    LET D == DOMAIN adds
    IN  { [m \in D |-> adds[f[m]]] :
            f \in { g \in [D -> D] : \A i, j \in D : g[i] = g[j] => i = j } }

AsBag(s) == [v \in Range(s) |-> Count(s, v)]

RECURSIVE Shape(_)
\* n with the values of every node taken as a multiset
Shape(n) ==
    [prefix   |-> n.prefix,
     values   |-> AsBag(n.values),
     children |-> [i \in DOMAIN n.children |-> Shape(n.children[i])]]

OrderIndependent ==
    AfterAdds =>
        \A calls \in Orders :
            LET other == ReplayOf(calls, Len(calls))
            IN  /\ Shape(other) = Shape(root)
                /\ \A p \in LongKeys :
                      LET a == TrieFind(root, <<>>, p)
                          b == TrieFind(other, <<>>, p)
                      IN  a.panic = b.panic /\ AsBag(a.ret) = AsBag(b.ret)

\* three Add calls of which another order builds a different trie: a node
\* lists the same values in another order
OrderIndependentWitness ==
    /\ last.op = "Add"
    /\ Len(adds) = MaxLongAdds
    /\ \E calls \in Orders : ReplayOf(calls, Len(calls)) # root

====
